---- MODULE Spec2Model ----
(***************************************************************************)
(* Mandelbrot renderers (munnellg/Mandelbrot): the escape-time kernel, the *)
(* iteration-budget ramp, and the pan/zoom/quit event handling of the      *)
(* windowed variants (sdl, opengl, and the bounding-box variant in src/).  *)
(*                                                                         *)
(* C float and double values are modelled bit-exactly as IEEE-754 binary   *)
(* numbers with round-to-nearest-even: a value is sign * man * 2^exp with  *)
(* man an unsigned big integer of exactly 24 (float) or 53 (double) bits,  *)
(* or zero.  Exponents are unbounded integers: overflow to infinity and    *)
(* gradual underflow are outside the model (ExponentsInRange states the    *)
(* range every modelled run stays in).                                     *)
(***************************************************************************)
EXTENDS Integers, Sequences, FiniteSets, TLC

(***************************************************************************)
(* Unsigned big integers: little-endian sequences of 15-bit limbs, without *)
(* leading zero limbs (zero is the empty sequence).                        *)
(***************************************************************************)
Base == 2^15

Min(a, b) == IF a < b THEN a ELSE b
Max(a, b) == IF a > b THEN a ELSE b
Abs(n) == IF n < 0 THEN -n ELSE n

RECURSIVE BTrim(_)
BTrim(a) ==
  IF a = <<>> THEN a
  ELSE IF a[Len(a)] = 0 THEN BTrim(SubSeq(a, 1, Len(a) - 1)) ELSE a

RECURSIVE BFromNat(_)
BFromNat(n) == IF n = 0 THEN <<>> ELSE <<n % Base>> \o BFromNat(n \div Base)

Limb(a, i) == IF i <= Len(a) THEN a[i] ELSE 0

RECURSIVE BAddC(_, _, _, _)
BAddC(a, b, i, c) ==
  IF i > Len(a) /\ i > Len(b) THEN (IF c = 0 THEN <<>> ELSE <<c>>)
  ELSE LET t == Limb(a, i) + Limb(b, i) + c
       IN <<t % Base>> \o BAddC(a, b, i + 1, t \div Base)

BAdd(a, b) == BTrim(BAddC(a, b, 1, 0))

RECURSIVE BSubC(_, _, _, _)
BSubC(a, b, i, br) ==
  IF i > Len(a) THEN <<>>
  ELSE LET t == a[i] - Limb(b, i) - br
       IN <<IF t < 0 THEN t + Base ELSE t>>
            \o BSubC(a, b, i + 1, IF t < 0 THEN 1 ELSE 0)

\* a - b, for a >= b
BSub(a, b) == BTrim(BSubC(a, b, 1, 0))

RECURSIVE BMulSmallC(_, _, _, _)
BMulSmallC(a, c, i, carry) ==
  IF i > Len(a) THEN (IF carry = 0 THEN <<>> ELSE <<carry>>)
  ELSE LET t == a[i] * c + carry
       IN <<t % Base>> \o BMulSmallC(a, c, i + 1, t \div Base)

\* a * c, for 0 <= c < Base
BMulSmall(a, c) == IF c = 0 THEN <<>> ELSE BMulSmallC(a, c, 1, 0)

RECURSIVE BMul(_, _)
BMul(a, b) ==
  IF a = <<>> \/ b = <<>> THEN <<>>
  ELSE BAdd(BMulSmall(a, b[1]), <<0>> \o BMul(a, Tail(b)))

RECURSIVE BCmpAt(_, _, _)
BCmpAt(a, b, i) ==
  IF i = 0 THEN 0
  ELSE IF a[i] # b[i] THEN (IF a[i] < b[i] THEN -1 ELSE 1)
  ELSE BCmpAt(a, b, i - 1)

\* -1, 0, 1 as a < b, a = b, a > b
BCmp(a, b) ==
  IF Len(a) # Len(b) THEN (IF Len(a) < Len(b) THEN -1 ELSE 1)
  ELSE BCmpAt(a, b, Len(a))

RECURSIVE NatBits(_)
NatBits(n) == IF n = 0 THEN 0 ELSE 1 + NatBits(n \div 2)

\* number of significant bits
BBits(a) ==
  IF a = <<>> THEN 0 ELSE 15 * (Len(a) - 1) + NatBits(a[Len(a)])

\* a * 2^n
BShl(a, n) ==
  IF a = <<>> THEN a
  ELSE [i \in 1..(n \div 15) |-> 0] \o BMulSmall(a, 2^(n % 15))

\* floor(a / 2^n)
BShr(a, n) ==
  LET w  == n \div 15
      r  == n % 15
      hi == IF w >= Len(a) THEN <<>> ELSE SubSeq(a, w + 1, Len(a))
  IN BTrim(<<>> \o [i \in 1..Len(hi) |->
              (hi[i] \div 2^r) + (Limb(hi, i + 1) % 2^r) * 2^(15 - r)])

\* bit i (from 0) of a
BBit(a, i) == (Limb(a, (i \div 15) + 1) \div 2^(i % 15)) % 2

\* some bit among the low n bits of a is set
BLowNonZero(a, n) == BShl(BShr(a, n), n) # a

RECURSIVE BDivSmallAt(_, _, _, _)
BDivSmallAt(a, d, i, rem) ==
  IF i = 0 THEN <<<<>>, rem>>
  ELSE LET t    == rem * Base + a[i]
           rest == BDivSmallAt(a, d, i - 1, t % d)
       IN <<rest[1] \o <<t \div d>>, rest[2]>>

\* <<floor(a / d), a mod d>>, for 0 < d < Base
BDivSmall(a, d) ==
  LET r == BDivSmallAt(a, d, Len(a), 0) IN <<BTrim(r[1]), r[2]>>

RECURSIVE NatTwos(_)
\* number of trailing zero bits of n > 0
NatTwos(n) == IF n % 2 = 1 THEN 0 ELSE 1 + NatTwos(n \div 2)

RECURSIVE BZeroLimbs(_, _)
\* number of zero limbs below the lowest non-zero limb of a # 0, from limb i
BZeroLimbs(a, i) == IF a[i] # 0 THEN 0 ELSE 1 + BZeroLimbs(a, i + 1)

\* <<odd part of a, number of trailing zero bits>>, for a # 0
BStripTwos(a) ==
  LET w == BZeroLimbs(a, 1)
      n == 15 * w + NatTwos(a[w + 1])
  IN <<BShr(a, n), n>>

(***************************************************************************)
(* IEEE-754 binary floating point, round to nearest, ties to even.         *)
(***************************************************************************)
FLT_MANT_DIG == 24
DBL_MANT_DIG == 53

FZero == [s |-> 0, m |-> <<>>, e |-> 0]

\* the p-bit value nearest to (-1)^s * m * 2^e
FRound(s, m, e, p) ==
  IF m = <<>> THEN FZero
  ELSE
    LET L == BBits(m) IN
    IF L <= p THEN [s |-> s, m |-> BShl(m, p - L), e |-> e - (p - L)]
    ELSE
      LET sh     == L - p
          q      == BShr(m, sh)
          half   == BBit(m, sh - 1) = 1
          sticky == sh > 1 /\ BLowNonZero(m, sh - 1)
          odd    == q[1] % 2 = 1
          q2     == IF half /\ (sticky \/ odd) THEN BAdd(q, <<1>>) ELSE q
      IN IF BBits(q2) > p
         THEN [s |-> s, m |-> BShr(q2, 1), e |-> e + sh + 1]
         ELSE [s |-> s, m |-> q2, e |-> e + sh]

\* (T) n for an int n
FFromInt(n, p) == FRound(IF n < 0 THEN 1 ELSE 0, BFromNat(Abs(n)), 0, p)

\* n / 2^k, exactly (|n| < 2^p)
FDyadic(n, k, p) == FRound(IF n < 0 THEN 1 ELSE 0, BFromNat(Abs(n)), -k, p)

\* (float) x for a double x, or any narrowing to p bits
FCast(x, p) == FRound(x.s, x.m, x.e, p)

FNeg(x) == IF x.m = <<>> THEN x ELSE [x EXCEPT !.s = 1 - x.s]

FMul(a, b, p) == FRound((a.s + b.s) % 2, BMul(a.m, b.m), a.e + b.e, p)

\* -1, 0, 1 as a < b, a = b, a > b
FCmp(a, b) ==
  LET e  == Min(a.e, b.e)
      x  == BShl(a.m, a.e - e)
      y  == BShl(b.m, b.e - e)
      sa == IF a.m = <<>> THEN 0 ELSE IF a.s = 1 THEN -1 ELSE 1
      sb == IF b.m = <<>> THEN 0 ELSE IF b.s = 1 THEN -1 ELSE 1
  IN IF sa # sb THEN (IF sa < sb THEN -1 ELSE 1)
     ELSE sa * BCmp(x, y)

FAdd(a, b, p) ==
  LET e == Min(a.e, b.e)
      x == BShl(a.m, a.e - e)
      y == BShl(b.m, b.e - e)
  IN IF a.m = <<>> THEN FCast(b, p)
     ELSE IF b.m = <<>> THEN FCast(a, p)
     ELSE IF a.s = b.s THEN FRound(a.s, BAdd(x, y), e, p)
     ELSE IF BCmp(x, y) >= 0 THEN FRound(a.s, BSub(x, y), e, p)
     ELSE FRound(b.s, BSub(y, x), e, p)

FSub(a, b, p) == FAdd(a, FNeg(b), p)

\* a / b for b # 0 whose mantissa has an odd part below Base (every divisor
\* of the program: 0.75, screen_height, screen_width)
FDiv(a, b, p) ==
  IF a.m = <<>> THEN FZero
  ELSE
    LET d  == BStripTwos(b.m)
        k  == p + 3 + 15
        qr == BDivSmall(BShl(a.m, k), d[1][1])
        \* the remainder is kept as a sticky low bit
        q  == BAdd(BShl(qr[1], 1), IF qr[2] = 0 THEN <<>> ELSE <<1>>)
    IN FRound((a.s + b.s) % 2, q, a.e - k - 1 - (b.e + d[2]), p)

(***************************************************************************)
(* Exact comparisons used to state tolerances (no rounding involved).      *)
(***************************************************************************)
RECURSIVE BPow3(_)
BPow3(n) == IF n = 0 THEN <<1>> ELSE BMulSmall(BPow3(n - 1), 3)

\* |a - b| as an unrounded pair [m, e]
ExactAbsDiff(a, b) ==
  LET e == Min(a.e, b.e)
      x == BShl(a.m, a.e - e)
      y == BShl(b.m, b.e - e)
  IN IF a.s # b.s /\ a.m # <<>> /\ b.m # <<>> THEN [m |-> BAdd(x, y), e |-> e]
     ELSE IF BCmp(x, y) >= 0 THEN [m |-> BSub(x, y), e |-> e]
     ELSE [m |-> BSub(y, x), e |-> e]

\* x <= y for unrounded non-negative pairs [m, e]
ExactLeq(x, y) ==
  LET e == Min(x.e, y.e)
  IN BCmp(BShl(x.m, x.e - e), BShl(y.m, y.e - e)) <= 0

\* |a - b| <= n * 2^-(p-2) * |b|
RelClose(a, b, n, p) ==
  ExactLeq(ExactAbsDiff(a, b), [m |-> BMulSmall(b.m, n), e |-> b.e - (p - 2)])

(***************************************************************************)
(* Program constants.                                                      *)
(***************************************************************************)
DEFAULT_SCREEN_WIDTH   == 800
DEFAULT_SCREEN_HEIGHT  == 600
DEFAULT_THRESHOLD      == 4
DEFAULT_MAX_ITERATIONS == 255
DEFAULT_MIN_RE == -2
DEFAULT_MAX_RE == 1
DEFAULT_MIN_IM == -1
DEFAULT_MAX_IM == 1

SDL_MOUSEWHEEL_NORMAL == 0
SDL_BUTTON_LMASK      == 1

\* #define ZOOM_FACTOR 0.75, a double constant; 1.0/ZOOM_FACTOR is the double
\* quotient the compiler folds
ZOOM_FACTOR     == FDyadic(3, 2, DBL_MANT_DIG)
InvZoomFactor   == FDiv(FFromInt(1, DBL_MANT_DIG), ZOOM_FACTOR, DBL_MANT_DIG)

(***************************************************************************)
(* Bounds of the model.                                                    *)
(***************************************************************************)
MaxEvents     == 2   \* events the environment delivers in one run
EventFrames   == 2   \* they arrive during the first EventFrames loop iterations
WheelMax      == 2   \* |e.wheel.y| of a wheel event
ExtraAdvances == 5   \* advances counted beyond maxiter
KMaxIter      == 7   \* largest maxiter handed to the kernel on its own

Variants == {"sdl", "opengl", "bbox"}

\* width of the floating type of struct state's scale, centre and thresh
\* (double in sdl, float in opengl and in the bounding-box variant)
Prec(var) == IF var = "sdl" THEN DBL_MANT_DIG ELSE FLT_MANT_DIG

(***************************************************************************)
(* SDL events, as far as handle_events reads them.                         *)
(***************************************************************************)
NoEvent == [type |-> "none", sym |-> "", y |-> 0, direction |-> 0,
            state |-> 0, xrel |-> 0, yrel |-> 0]

QuitEvents    == {[NoEvent EXCEPT !.type = "SDL_QUIT"]}
KeyEvents     == {[NoEvent EXCEPT !.type = "SDL_KEYDOWN", !.sym = k] :
                    k \in {"q", "a"}}
WheelEvents   == {[NoEvent EXCEPT !.type = "SDL_MOUSEWHEEL", !.y = y,
                                  !.direction = d] :
                    y \in (-WheelMax)..WheelMax, d \in {0, 1}}
MotionRel     == {<<-1, 0>>, <<0, 2>>, <<3, -2>>}
MotionEvents  == {[NoEvent EXCEPT !.type = "SDL_MOUSEMOTION", !.state = b,
                                  !.xrel = r[1], !.yrel = r[2]] :
                    b \in {0, 1, 4, 5}, r \in MotionRel}
OtherEvents   == {[NoEvent EXCEPT !.type = "SDL_KEYUP", !.sym = "q"]}
Events == QuitEvents \cup KeyEvents \cup WheelEvents \cup MotionEvents
            \cup OtherEvents

VARIABLES
  variant,        \* which of the windowed programs runs
  pc,             \* position in main
  quit, scale, centre_x, centre_y, thresh, maxiter, curiter,
  screen_width, screen_height,
  box,            \* min_re, max_re, min_im, max_im of the bounding-box variant
  e,              \* SDL_Event e of handle_events
  rendered,       \* a frame has been rendered
  budget,         \* the iteration budget render handed on in the last frame
  polled,         \* events delivered so far
  advances,       \* advances of the budget so far (counted up to a cap)
  n_in, n_out,    \* zoom-in and zoom-out events applied so far
  zprev,          \* direction of the last zoom and the scale before it
  kern,           \* one call of mandelbrot: arguments, locals, position
  frame           \* one call of render: its locals, the pixel buffer, the workers

state == <<quit, scale, centre_x, centre_y, thresh, maxiter, curiter,
           screen_width, screen_height, box>>
vars == <<variant, pc, state, e, rendered, budget, polled, advances,
          n_in, n_out, zprev, kern, frame>>

(***************************************************************************)
(* zoom, scroll, update.                                                   *)
(***************************************************************************)
\* s->scale *= (dir < 0)? 1.0/ZOOM_FACTOR : ZOOM_FACTOR;  the product is a
\* a zoom whose way out is 2 - ZOOM_FACTOR instead of 1/ZOOM_FACTOR
zoomLinearOut(sc, dir, p) ==
  FCast(FMul(sc, IF dir < 0 THEN FDyadic(5, 2, DBL_MANT_DIG) ELSE ZOOM_FACTOR,
             DBL_MANT_DIG), p)

\* double, stored back into a field of p bits
zoom(sc, dir, p) ==
  FCast(FMul(sc, IF dir < 0 THEN InvZoomFactor ELSE ZOOM_FACTOR, DBL_MANT_DIG), p)

\* the new <<centre_x, centre_y>>
scroll(var, sc, cx, cy, xrel, yrel) ==
  LET p  == Prec(var)
      dx == FMul(FFromInt(-xrel, p), sc, p)
      dy == IF var = "sdl" THEN FMul(FFromInt(-yrel, p), sc, p)
                           ELSE FMul(FFromInt(yrel, p), sc, p)
  IN <<FAdd(cx, dx, p), FAdd(cy, dy, p)>>

\* an advance without the cap
updateUncapped(cur, max) == cur + 1

\* if ( s->curiter < s->maxiter ) { s->curiter++; }
update(cur, max) == IF cur < max THEN cur + 1 ELSE cur

AdvanceCap == DEFAULT_MAX_ITERATIONS + ExtraAdvances
Count(n) == IF n < AdvanceCap THEN n + 1 ELSE n

(***************************************************************************)
(* The escape-time kernel, one loop step at a time.                        *)
(***************************************************************************)
KIdle == [pc |-> "idle", p |-> DBL_MANT_DIG, re |-> FZero, im |-> FZero,
          maxiter |-> 0, threshold |-> FZero, k |-> 0,
          u |-> FZero, v |-> FZero, u2 |-> FZero, v2 |-> FZero,
          steps |-> 0, tests |-> 0]

\* a kernel that counts from 0
KStartAtZero(p, re, im, mi, th) ==
  [pc |-> "test", p |-> p, re |-> re, im |-> im, maxiter |-> mi,
   threshold |-> th, k |-> 0, u |-> FZero, v |-> FZero,
   u2 |-> FMul(FZero, FZero, p), v2 |-> FMul(FZero, FZero, p),
   steps |-> 0, tests |-> 0]

\* int k; u = 0, v = 0, u2 = u*u, v2 = v*v; for (k = 1; ...
KStart(p, re, im, mi, th) ==
  [KIdle EXCEPT !.pc = "test", !.p = p, !.re = re, !.im = im, !.maxiter = mi,
                !.threshold = th, !.k = 1,
                !.u2 = FMul(FZero, FZero, p), !.v2 = FMul(FZero, FZero, p)]

\* a loop that also runs at k = maxiter
KLoopCondInclusive(k, mi) == k <= mi

\* k < maxiter
KLoopCond(k, mi) == k < mi

\* an escape test that misses the boundary
KEscapedStrict(u2, v2, th, p) == FCmp(FAdd(u2, v2, p), th) > 0

\* if ( u2 + v2 >= threshold )
KEscaped(u2, v2, th, p) == FCmp(FAdd(u2, v2, p), th) >= 0

\* v = 2*u*v + im; u = u2 - v2 + re; u2 = u*u; v2 = v*v;
KBodyStep(c) ==
  LET p  == c.p
      nv == FAdd(FMul(FMul(FFromInt(2, p), c.u, p), c.v, p), c.im, p)
      nu == FAdd(FSub(c.u2, c.v2, p), c.re, p)
  IN [c EXCEPT !.v = nv, !.u = nu, !.u2 = FMul(nu, nu, p),
               !.v2 = FMul(nv, nv, p), !.steps = @ + 1]

(***************************************************************************)
(* Initial states.                                                         *)
(***************************************************************************)
InitScale(var) ==
  IF var = "bbox" THEN FZero
  ELSE FCast(FDiv(FFromInt(4, DBL_MANT_DIG),
                  FFromInt(DEFAULT_SCREEN_HEIGHT, DBL_MANT_DIG), DBL_MANT_DIG),
             Prec(var))

InitBox(var) ==
  IF var = "bbox"
  THEN [min_re |-> FFromInt(DEFAULT_MIN_RE, FLT_MANT_DIG),
        max_re |-> FFromInt(DEFAULT_MAX_RE, FLT_MANT_DIG),
        min_im |-> FFromInt(DEFAULT_MIN_IM, FLT_MANT_DIG),
        max_im |-> FFromInt(DEFAULT_MAX_IM, FLT_MANT_DIG)]
  ELSE [min_re |-> FZero, max_re |-> FZero, min_im |-> FZero, max_im |-> FZero]

\* the state initialize leaves; the bounding-box variant has no scale and no
\* centre (kept zero here and never read), the others no bounding box
initialize(var) ==
  /\ variant = var
  /\ quit = 0
  /\ scale = InitScale(var)
  /\ centre_x = FZero
  /\ centre_y = FZero
  /\ thresh = FFromInt(DEFAULT_THRESHOLD, Prec(var))
  /\ maxiter = DEFAULT_MAX_ITERATIONS
  /\ curiter = 0
  /\ screen_width = DEFAULT_SCREEN_WIDTH
  /\ screen_height = DEFAULT_SCREEN_HEIGHT
  /\ box = InitBox(var)

(***************************************************************************)
(* One call of render: the pixel loop is filled by NumWorkers threads on   *)
(* MaxPixels pixel indices of the frame, PixelStride apart.                *)
(***************************************************************************)
MaxPixels   == 3        \* pixel indices of a frame the workers fill
PixelStride == 120200   \* distance between two of them
NumWorkers  == 2        \* threads of the parallel region
MaxBudget   == 2        \* largest curiter a frame is filled with

Workers == 1..NumWorkers
Slots   == 0..(MaxPixels - 1)
PixelIndex(j) == j * PixelStride

\* Uint32 pixels[...] starts without contents (-1); no worker has an index
FIdle ==
  [pc |-> "idle", dx |-> FZero, dy |-> FZero,
   taken |-> {}, pixels |-> [j \in Slots |-> -1],
   writes |-> [j \in Slots |-> 0], by |-> [j \in Slots |-> 0],
   w |-> [t \in Workers |-> [pc |-> "idle", slot |-> 0, x |-> FZero,
                             y |-> FZero, k |-> 0]]]

Ghosts0 ==
  /\ e = NoEvent
  /\ rendered = FALSE
  /\ budget = 0
  /\ polled = 0
  /\ advances = 0
  /\ n_in = 0
  /\ n_out = 0
  /\ zprev = [dir |-> "none", scale |-> FZero]

Init ==
  /\ \E var \in Variants : initialize(var)
  /\ pc = "loop"
  /\ Ghosts0
  /\ kern = KIdle
  /\ frame = FIdle

(***************************************************************************)
(* main: while (!s.quit) { handle_events; update; render; }                *)
(***************************************************************************)
AfterEvents(var) == IF var = "sdl" THEN "update" ELSE "render"
AfterRender(var) == IF var = "opengl" THEN "update" ELSE "loop"
AfterUpdate(var) == IF var = "opengl" THEN "loop" ELSE "render"

ghosts == <<rendered, budget, polled, advances, n_in, n_out, zprev>>

LoopTest ==
  /\ pc = "loop"
  /\ pc' = IF quit = 0 THEN "poll" ELSE "done"
  /\ UNCHANGED <<variant, state, e, ghosts, kern, frame>>

\* SDL_PollEvent(&e) returns 1 and fills e
PollEvent ==
  /\ pc = "poll"
  /\ polled < MaxEvents
  /\ curiter < EventFrames
  /\ \E ev \in Events : e' = ev
  /\ polled' = polled + 1
  /\ pc' = "dispatch"
  /\ UNCHANGED <<variant, state, rendered, budget, advances, n_in, n_out,
                 zprev, kern, frame>>

\* SDL_PollEvent(&e) returns 0: handle_events returns
PollEmpty ==
  /\ pc = "poll"
  /\ e' = NoEvent
  /\ pc' = AfterEvents(variant)
  /\ UNCHANGED <<variant, state, ghosts, kern, frame>>

HandleQuit ==
  /\ pc = "dispatch"
  /\ e.type = "SDL_QUIT"
  /\ quit' = 1
  /\ pc' = "poll"
  /\ UNCHANGED <<variant, scale, centre_x, centre_y, thresh, maxiter, curiter,
                 screen_width, screen_height, box, e, ghosts, kern, frame>>

\* s->quit = e.key.keysym.sym == SDLK_q;
KeydownQuit(sym) == IF sym = "q" THEN 1 ELSE 0

HandleKeydown ==
  /\ pc = "dispatch"
  /\ e.type = "SDL_KEYDOWN"
  /\ quit' = KeydownQuit(e.sym)
  /\ pc' = "poll"
  /\ UNCHANGED <<variant, scale, centre_x, centre_y, thresh, maxiter, curiter,
                 screen_width, screen_height, box, e, ghosts, kern, frame>>

\* a direction that ignores the flipped flag
WheelDirUnflipped(ev) == ev.y

\* the direction handed to zoom: (flipped)? -e.wheel.y : e.wheel.y
WheelDir(ev) == IF ev.direction # SDL_MOUSEWHEEL_NORMAL THEN -ev.y ELSE ev.y

\* a wheel handler that restarts the budget ramp on every zoom
HandleWheelRestart ==
  /\ pc = "dispatch"
  /\ e.type = "SDL_MOUSEWHEEL"
  /\ variant # "bbox"
  /\ IF e.y # 0
     THEN /\ scale' = zoom(scale, WheelDir(e), Prec(variant))
          /\ n_in' = IF WheelDir(e) < 0 THEN n_in ELSE n_in + 1
          /\ n_out' = IF WheelDir(e) < 0 THEN n_out + 1 ELSE n_out
          /\ zprev' = [dir |-> IF WheelDir(e) < 0 THEN "out" ELSE "in",
                       scale |-> scale]
          /\ curiter' = 0
     ELSE UNCHANGED <<scale, n_in, n_out, zprev, curiter>>
  /\ pc' = "poll"
  /\ UNCHANGED <<variant, quit, centre_x, centre_y, thresh, maxiter,
                 screen_width, screen_height, box, e, rendered, budget,
                 polled, advances, kern, frame>>

HandleWheel ==
  /\ pc = "dispatch"
  /\ e.type = "SDL_MOUSEWHEEL"
  /\ variant # "bbox"
  /\ IF e.y # 0
     THEN /\ scale' = zoom(scale, WheelDir(e), Prec(variant))
          /\ n_in' = IF WheelDir(e) < 0 THEN n_in ELSE n_in + 1
          /\ n_out' = IF WheelDir(e) < 0 THEN n_out + 1 ELSE n_out
          /\ zprev' = [dir |-> IF WheelDir(e) < 0 THEN "out" ELSE "in",
                       scale |-> scale]
     ELSE UNCHANGED <<scale, n_in, n_out, zprev>>
  /\ pc' = "poll"
  /\ UNCHANGED <<variant, quit, centre_x, centre_y, thresh, maxiter, curiter,
                 screen_width, screen_height, box, e, rendered, budget,
                 polled, advances, kern, frame>>

\* a drag test that accepts any button
AnyButtonHeld(ev) == ev.state # 0

\* (e.motion.state & SDL_BUTTON_LMASK) != 0
LeftHeld(ev) == (ev.state \div SDL_BUTTON_LMASK) % 2 # 0

HandleMotion ==
  /\ pc = "dispatch"
  /\ e.type = "SDL_MOUSEMOTION"
  /\ variant # "bbox"
  /\ IF LeftHeld(e)
     THEN LET c == scroll(variant, scale, centre_x, centre_y, e.xrel, e.yrel)
          IN centre_x' = c[1] /\ centre_y' = c[2]
     ELSE UNCHANGED <<centre_x, centre_y>>
  /\ pc' = "poll"
  /\ UNCHANGED <<variant, quit, scale, thresh, maxiter, curiter,
                 screen_width, screen_height, box, e, ghosts, kern, frame>>

\* no case of the switch matches
HandleOther ==
  /\ pc = "dispatch"
  /\ \/ e.type \notin {"SDL_QUIT", "SDL_KEYDOWN", "SDL_MOUSEWHEEL",
                       "SDL_MOUSEMOTION"}
     \/ variant = "bbox" /\ e.type \in {"SDL_MOUSEWHEEL", "SDL_MOUSEMOTION"}
  /\ pc' = "poll"
  /\ UNCHANGED <<variant, state, e, ghosts, kern, frame>>

Update ==
  /\ pc = "update"
  /\ curiter' = update(curiter, maxiter)
  /\ advances' = Count(advances)
  /\ pc' = AfterUpdate(variant)
  /\ UNCHANGED <<variant, quit, scale, centre_x, centre_y, thresh, maxiter,
                 screen_width, screen_height, box, e, rendered, budget,
                 polled, n_in, n_out, zprev, kern, frame>>

\* render hands s->curiter to mandelbrot for every pixel (sdl, bounding box)
\* or to the shader as the curiter uniform (opengl); the bounding-box variant
\* advances the budget first
Render ==
  /\ pc = "render"
  /\ curiter' = IF variant = "bbox" THEN update(curiter, maxiter) ELSE curiter
  /\ advances' = IF variant = "bbox" THEN Count(advances) ELSE advances
  /\ budget' = curiter'
  /\ rendered' = TRUE
  /\ pc' = AfterRender(variant)
  /\ UNCHANGED <<variant, quit, scale, centre_x, centre_y, thresh, maxiter,
                 screen_width, screen_height, box, e, polled, n_in, n_out,
                 zprev, kern, frame>>

Next ==
  \/ LoopTest
  \/ PollEvent
  \/ PollEmpty
  \/ HandleQuit
  \/ HandleKeydown
  \/ HandleWheel
  \/ HandleMotion
  \/ HandleOther
  \/ Update
  \/ Render

Spec == Init /\ [][Next]_vars

(***************************************************************************)
(* The kernel on its own: the arguments are drawn from bounded sets.       *)
(***************************************************************************)
\* coordinates and thresholds in eighths
KCoords     == {-16, -6, -3, 0, 1, 2, 5, 16}
KThresholds == {0, 2, 32, 128}
KPrecs      == {FLT_MANT_DIG, DBL_MANT_DIG}

KInit ==
  /\ initialize("sdl")
  /\ pc = "done"
  /\ Ghosts0
  /\ frame = FIdle
  /\ \E p \in KPrecs, re \in KCoords, im \in KCoords, th \in KThresholds,
        mi \in (-1)..KMaxIter :
       kern = KStart(p, FDyadic(re, 3, p), FDyadic(im, 3, p), mi,
                     FDyadic(th, 3, p))

\* the loop condition: enter the body, or leave the loop and return k
KTest ==
  /\ kern.pc = "test"
  /\ kern' = [kern EXCEPT !.pc = IF KLoopCond(kern.k, kern.maxiter)
                                 THEN "body" ELSE "return"]
  /\ UNCHANGED <<variant, pc, state, e, ghosts, frame>>

\* one pass through the body: break on escape, else k++
KBody ==
  /\ kern.pc = "body"
  /\ LET c == KBodyStep(kern)
     IN kern' = IF KEscaped(c.u2, c.v2, c.threshold, c.p)
                THEN [c EXCEPT !.pc = "return", !.tests = @ + 1]
                ELSE [c EXCEPT !.pc = "test", !.tests = @ + 1, !.k = @ + 1]
  /\ UNCHANGED <<variant, pc, state, e, ghosts, frame>>

KNext == KTest \/ KBody

KernelSpec == KInit /\ [][KNext]_vars

(***************************************************************************)
(* render of the sdl and the bounding-box variant, one worker step at a    *)
(* time.                                                                   *)
(***************************************************************************)
colours ==
  <<4333071, 1640218, 590127, 263241, 1892, 797834, 1594033, 3767761,
    8828389, 13888760, 15854015, 16304479, 16755200, 13402112, 10049280,
    6960131>>
num_colours == Len(colours)

\* return colours[k%num_colours];
colourize(k) == colours[(k % num_colours) + 1]

\* a whole call of mandelbrot
RECURSIVE KRun(_)
KRun(c) ==
  IF ~KLoopCond(c.k, c.maxiter) THEN c.k
  ELSE LET d == KBodyStep(c)
       IN IF KEscaped(d.u2, d.v2, d.threshold, d.p) THEN d.k
          ELSE KRun([d EXCEPT !.k = @ + 1])

mandelbrot(re, im, mi, th, p) == KRun(KStart(p, re, im, mi, th))

RECURSIVE BToNat(_)
BToNat(a) == IF a = <<>> THEN 0 ELSE a[1] + Base * BToNat(Tail(a))

\* a float handed to an int parameter: truncated towards zero
FToInt(x) ==
  IF x.m = <<>> THEN 0
  ELSE LET n == IF x.e >= 0 THEN BToNat(BShl(x.m, x.e))
                ELSE BToNat(BShr(x.m, 0 - x.e))
       IN IF x.s = 1 THEN 0 - n ELSE n

\* (float) abs(hi - lo)/n, abs being int abs(int)
BoxStep(lo, hi, n) ==
  FDiv(FFromInt(Abs(FToInt(FSub(hi, lo, FLT_MANT_DIG))), FLT_MANT_DIG),
       FFromInt(n, FLT_MANT_DIG), FLT_MANT_DIG)

\* the plane point <<x, y>> of pixel index i
PixelPoint(i) ==
  LET col == i % screen_width
      row == i \div screen_width
  IN IF variant = "bbox"
     THEN <<FAdd(box.min_re,
                 FMul(frame.dx, FFromInt(col, FLT_MANT_DIG), FLT_MANT_DIG),
                 FLT_MANT_DIG),
            FAdd(box.min_im,
                 FMul(frame.dy, FFromInt(row, FLT_MANT_DIG), FLT_MANT_DIG),
                 FLT_MANT_DIG)>>
     ELSE <<FAdd(FMul(FFromInt(col - screen_width \div 2, DBL_MANT_DIG),
                      scale, DBL_MANT_DIG), centre_x, DBL_MANT_DIG),
            FAdd(FMul(FFromInt(row - screen_height \div 2, DBL_MANT_DIG),
                      scale, DBL_MANT_DIG), centre_y, DBL_MANT_DIG)>>

\* a background test that misses k = curiter
pixelStrict(k, cur) == IF k > cur THEN 0 ELSE colourize(k)

\* pixels[i] = ( k >= s->curiter )? 0 : colourize(k);
pixel(k, cur) == IF k >= cur THEN 0 ELSE colourize(k)

RViewports ==
  {<<InitScale("sdl"), FZero>>,
   <<zoom(InitScale("sdl"), 1, DBL_MANT_DIG), FDyadic(-3, 2, DBL_MANT_DIG)>>}

\* a state in which main calls render
RInitWith(var, cur, view, bx) ==
  /\ variant = var
  /\ quit = 0
  /\ scale = IF var = "bbox" THEN FZero ELSE view[1]
  /\ centre_x = IF var = "bbox" THEN FZero ELSE view[2]
  /\ centre_y = FZero
  /\ thresh = FFromInt(DEFAULT_THRESHOLD, Prec(var))
  /\ maxiter = DEFAULT_MAX_ITERATIONS
  /\ curiter = IF var = "bbox" THEN cur - 1 ELSE cur
  /\ screen_width = DEFAULT_SCREEN_WIDTH
  /\ screen_height = DEFAULT_SCREEN_HEIGHT
  /\ box = bx
  /\ pc = "render"
  /\ Ghosts0
  /\ kern = KIdle
  /\ frame = FIdle

RInit ==
  \E var \in {"sdl", "bbox"}, cur \in 1..MaxBudget, view \in RViewports :
    RInitWith(var, cur, view, InitBox(var))

\* the top of render: the bounding-box variant advances the budget and
\* computes dx, dy; then the parallel region starts
RStart ==
  /\ pc = "render"
  /\ frame.pc = "idle"
  /\ curiter' = IF variant = "bbox" THEN update(curiter, maxiter) ELSE curiter
  /\ advances' = IF variant = "bbox" THEN Count(advances) ELSE advances
  /\ frame' = [frame EXCEPT
                 !.pc = "fill",
                 !.dx = IF variant = "bbox"
                        THEN BoxStep(box.min_re, box.max_re, screen_width)
                        ELSE FZero,
                 !.dy = IF variant = "bbox"
                        THEN BoxStep(box.min_im, box.max_im, screen_height)
                        ELSE FZero]
  /\ UNCHANGED <<variant, pc, quit, scale, centre_x, centre_y, thresh, maxiter,
                 screen_width, screen_height, box, e, rendered, budget,
                 polled, n_in, n_out, zprev, kern>>

\* the omp for hands a worker an index no worker had yet
WTake(t) ==
  /\ frame.pc = "fill"
  /\ frame.w[t].pc = "idle"
  /\ \E j \in Slots \ frame.taken :
       frame' = [frame EXCEPT !.taken = @ \cup {j},
                              !.w[t].pc = "body", !.w[t].slot = j]
  /\ UNCHANGED <<variant, pc, state, e, ghosts, kern>>

\* the worker's locals: the plane point of its pixel and the kernel result
WKernel(t) ==
  /\ frame.pc = "fill"
  /\ frame.w[t].pc = "body"
  /\ LET pt == PixelPoint(PixelIndex(frame.w[t].slot))
     IN frame' = [frame EXCEPT
                    !.w[t].pc = "store", !.w[t].x = pt[1], !.w[t].y = pt[2],
                    !.w[t].k = mandelbrot(pt[1], pt[2], curiter, thresh,
                                          Prec(variant))]
  /\ UNCHANGED <<variant, pc, state, e, ghosts, kern>>

\* pixels[i] = ...
WStore(t) ==
  /\ frame.pc = "fill"
  /\ frame.w[t].pc = "store"
  /\ LET j == frame.w[t].slot
     IN frame' = [frame EXCEPT
                    !.pixels[j] = pixel(frame.w[t].k, curiter),
                    !.writes[j] = @ + 1,
                    !.by[j] = t,
                    !.w[t].pc = "idle"]
  /\ UNCHANGED <<variant, pc, state, e, ghosts, kern>>

\* the end of the parallel region and the hand-over of the buffer
RPresent ==
  /\ frame.pc = "fill"
  /\ frame.taken = Slots
  /\ \A t \in Workers : frame.w[t].pc = "idle"
  /\ frame' = [frame EXCEPT !.pc = "done"]
  /\ rendered' = TRUE
  /\ budget' = curiter
  /\ pc' = AfterRender(variant)
  /\ UNCHANGED <<variant, state, e, polled, advances, n_in, n_out, zprev,
                 kern>>

RNext ==
  \/ RStart
  \/ \E t \in Workers : WTake(t)
  \/ \E t \in Workers : WKernel(t)
  \/ \E t \in Workers : WStore(t)
  \/ RPresent

RenderSpec == RInit /\ [][RNext]_vars


(***************************************************************************)
(* render of the bounding-box variant as a function of its bounds: the     *)
(* bounds are drawn from eighths with min < max, the rest is as initialize *)
(* leaves it.                                                              *)
(***************************************************************************)
MapReCoords == {-16, -8, 0, 4, 8}
MapImCoords == {-8, 0, 8}

MapBox(lr, hr, li, hi) ==
  [min_re |-> FDyadic(lr, 3, FLT_MANT_DIG), max_re |-> FDyadic(hr, 3, FLT_MANT_DIG),
   min_im |-> FDyadic(li, 3, FLT_MANT_DIG), max_im |-> FDyadic(hi, 3, FLT_MANT_DIG)]

MapInit ==
  \E lr \in MapReCoords, hr \in MapReCoords, li \in MapImCoords,
     hi \in MapImCoords :
    /\ lr < hr
    /\ li < hi
    /\ RInitWith("bbox", 1, <<FZero, FZero>>, MapBox(lr, hr, li, hi))

MapSpec == MapInit /\ [][RNext]_vars

(***************************************************************************)
(* Every float of the state stays a normal, finite number of its type, so  *)
(* the unbounded exponents of the model never leave what the C types hold. *)
(***************************************************************************)
Normal(x, p) ==
  \/ x.m = <<>>
  \/ /\ BBits(x.m) = p
     /\ x.e + p - 1 >= (IF p = FLT_MANT_DIG THEN -126 ELSE -1022)
     /\ x.e + p - 1 <= (IF p = FLT_MANT_DIG THEN 127 ELSE 1023)

ExponentsInRange ==
  /\ \A x \in {scale, centre_x, centre_y, thresh} : Normal(x, Prec(variant))
  /\ \A x \in {kern.re, kern.im, kern.threshold, kern.u, kern.v, kern.u2,
               kern.v2} : Normal(x, kern.p)

(***************************************************************************)
(* The orbit of the claims: z_0 = 0, z_j = z_(j-1)^2 + c by plain complex  *)
(* squaring in the kernel's precision, and its escape test.                *)
(***************************************************************************)
RECURSIVE RefOrbit(_, _, _, _)
RefOrbit(j, re, im, p) ==
  IF j = 0 THEN <<FZero, FZero>>
  ELSE LET z == RefOrbit(j - 1, re, im, p)
       IN <<FAdd(FSub(FMul(z[1], z[1], p), FMul(z[2], z[2], p), p), re, p),
            FAdd(FMul(FMul(FFromInt(2, p), z[1], p), z[2], p), im, p)>>

RefMagSq(j, re, im, p) ==
  LET z == RefOrbit(j, re, im, p)
  IN FAdd(FMul(z[1], z[1], p), FMul(z[2], z[2], p), p)

RefEscapes(j) ==
  FCmp(RefMagSq(j, kern.re, kern.im, kern.p), kern.threshold) >= 0

KReturned == kern.pc = "return"

\* C1: for maxiter >= 1 mandelbrot returns the least k in 1..maxiter-1 at which
\* the orbit's squared magnitude is >= threshold, and maxiter when there is
\* none; the loop body runs at most maxiter-1 times; the origin with
\* threshold 4 returns maxiter.
C1_LeastEscape ==
  kern.pc # "idle" /\ kern.maxiter >= 1 =>
    /\ kern.steps <= kern.maxiter - 1
    /\ kern.pc = "test" => kern.k = kern.steps + 1
    /\ KReturned =>
         /\ kern.k \in 1..kern.maxiter
         /\ \A j \in 1..(kern.k - 1) : ~RefEscapes(j)
         /\ kern.k < kern.maxiter => RefEscapes(kern.k)
         /\ (kern.re = FZero /\ kern.im = FZero
               /\ kern.threshold = FFromInt(4, kern.p))
              => kern.k = kern.maxiter

\* a call that escaped in the middle of its budget, after some rounding
C1_Witness ==
  /\ KReturned
  /\ kern.maxiter = KMaxIter
  /\ kern.k = 4
  /\ RefEscapes(4)

\* C5 as claimed: a point whose first iterate already has squared magnitude
\* >= threshold returns k < maxiter for every maxiter (here: every maxiter >= 1).
C5_EscapeForEveryBudget ==
  (KReturned /\ kern.maxiter >= 1 /\ RefEscapes(1)) => kern.k < kern.maxiter

\* C5 amended: for every maxiter >= 2 such a point returns k = 1 < maxiter,
\* and so does (2.0, 2.0) with threshold 4.
C5_EscapeAtOne ==
  /\ (KReturned /\ kern.maxiter >= 2 /\ RefEscapes(1))
       => (kern.k = 1 /\ kern.k < kern.maxiter)
  /\ (KReturned /\ kern.maxiter >= 2
        /\ kern.re = FFromInt(2, kern.p) /\ kern.im = FFromInt(2, kern.p)
        /\ kern.threshold = FFromInt(4, kern.p))
       => kern.k = 1

C5_Witness ==
  /\ KReturned
  /\ kern.maxiter = 2
  /\ kern.re = FFromInt(2, kern.p) /\ kern.im = FFromInt(2, kern.p)
  /\ kern.threshold = FFromInt(4, kern.p)
  /\ kern.k = 1

\* C6: for maxiter <= 1 mandelbrot runs no orbit step and no escape test and
\* returns exactly 1, whatever the point and the threshold.
C6_NoStepBelowTwo ==
  kern.pc # "idle" /\ kern.maxiter <= 1 =>
    /\ kern.steps = 0
    /\ kern.tests = 0
    /\ kern.pc # "body"
    /\ KReturned => kern.k = 1

C6_Witness ==
  /\ KReturned
  /\ kern.maxiter = -1
  /\ kern.re # FZero
  /\ kern.k = 1
  /\ kern.steps = 0

(***************************************************************************)
(* Claims about the windowed programs.                                     *)
(***************************************************************************)
\* C2: in every rendered frame the budget handed to the kernel or the shader
\* is at least 1 and at most maxiter.
C2_BudgetInRange == rendered => (1 <= budget /\ budget <= maxiter)

\* C3: once quit is set no later event clears it.
C3_QuitTerminal == [][quit = 1 => quit' = 1]_vars

Advancing == pc = "update" \/ (pc = "render" /\ variant = "bbox")

\* C4: 0 <= curiter <= maxiter always; an advance adds exactly 1 below maxiter
\* and nothing at maxiter; curiter never decreases; after maxiter + 5 advances
\* curiter = maxiter.
C4_BudgetRamp ==
  /\ [](0 <= curiter /\ curiter <= maxiter)
  /\ [](advances >= maxiter + 5 => curiter = maxiter)
  /\ [][Advancing =>
          curiter' = IF curiter < maxiter THEN curiter + 1 ELSE curiter]_vars
  /\ [][curiter' >= curiter]_vars

C4_Witness ==
  /\ advances = maxiter + 5
  /\ curiter = maxiter
  /\ pc = "loop"

Zooming == pc = "dispatch" /\ e.type = "SDL_MOUSEWHEEL" /\ variant # "bbox"
Panning == pc = "dispatch" /\ e.type = "SDL_MOUSEMOTION" /\ variant # "bbox"

\* x * 3^threes * 4^fours, exact
ScaleSide(x, threes, fours) ==
  [m |-> BMul(x.m, BPow3(threes)), e |-> x.e + 2 * fours]

\* sc = s0 * (3/4)^(nin - nout) exactly, as sc * 3^nout * 4^nin against
\* s0 * 3^nin * 4^nout
ScaleExact(sc, s0, nin, nout) ==
  LET a == ScaleSide(sc, nout, nin)
      b == ScaleSide(s0, nin, nout)
  IN ExactLeq(a, b) /\ ExactLeq(b, a)

ExactWithin(a, b, n, p) ==
  LET lo == Min(a.e, b.e)
      x  == BShl(a.m, a.e - lo)
      y  == BShl(b.m, b.e - lo)
      d  == IF BCmp(x, y) >= 0 THEN BSub(x, y) ELSE BSub(y, x)
  IN BCmp(BShl(d, p - 2), BMulSmall(y, n)) <= 0

\* sc = s0 * (3/4)^(nin - nout) up to a relative error of (nin + nout) * 2^-(p-2)
ScaleWithin(sc, s0, nin, nout, p) ==
  ExactWithin(ScaleSide(sc, nout, nin), ScaleSide(s0, nin, nout), nin + nout, p)

C8_OneFactorPerWheel ==
  [][Zooming =>
       LET norm == IF e.direction = SDL_MOUSEWHEEL_NORMAL THEN e.y ELSE 0 - e.y
           by(f) == FCast(FMul(scale, f, DBL_MANT_DIG), Prec(variant))
       IN /\ ZOOM_FACTOR = FDyadic(3, 2, DBL_MANT_DIG)
          /\ e.y = 0 => scale' = scale
          /\ norm > 0 => scale' = by(ZOOM_FACTOR)
          /\ norm < 0 => scale' = by(InvZoomFactor)]_vars

\* a flipped two-notch wheel event has been applied as one zoom-in
C8_Witness ==
  /\ pc = "poll"
  /\ e.type = "SDL_MOUSEWHEEL" /\ e.y = -2 /\ e.direction # SDL_MOUSEWHEEL_NORMAL
  /\ n_in = 1 /\ n_out = 0
  /\ variant = "opengl"

PanSign(var) == IF var = "sdl" THEN -1 ELSE 1

\* C9: a motion event moves the centre only with the left-button mask set;
\* then centre_x grows by -xrel * scale and centre_y by sign * yrel * scale
\* (sign -1 in sdl, +1 in opengl); without the left button both are unchanged.
C9_PanOnlyWithLeftButton ==
  [][Panning =>
       LET p  == Prec(variant)
           px == FMul(FFromInt(e.xrel, p), scale, p)
           py == FMul(FFromInt(e.yrel, p), scale, p)
       IN IF e.state \in {1, 5}
          THEN /\ centre_x' = FAdd(centre_x, FNeg(px), p)
               /\ centre_y' = FAdd(centre_y,
                                   IF PanSign(variant) < 0 THEN FNeg(py) ELSE py,
                                   p)
          ELSE centre_x' = centre_x /\ centre_y' = centre_y]_vars

\* a drag with the left button held has moved the centre in both axes
C9_Witness ==
  /\ pc = "poll"
  /\ e.type = "SDL_MOUSEMOTION" /\ e.state = 5 /\ e.xrel = 3 /\ e.yrel = -2
  /\ centre_x.s = 1 /\ centre_y.s = 0
  /\ variant = "sdl"

\* C10: a zoom event changes only scale, a pan event only centre_x and
\* centre_y, and no input event lowers curiter.
C10_EventFrames ==
  /\ [][Zooming => UNCHANGED <<centre_x, centre_y, curiter, maxiter, thresh,
                               screen_width, screen_height>>]_vars
  /\ [][Panning => UNCHANGED <<scale, curiter, maxiter, thresh,
                               screen_width, screen_height>>]_vars
  /\ [][(pc = "poll" \/ pc = "dispatch") => curiter' >= curiter]_vars

\* a zoom and then a pan, both handled after the budget had started to grow
C10_Witness ==
  /\ pc = "poll"
  /\ e.type = "SDL_MOUSEMOTION" /\ e.state = 1
  /\ centre_x # FZero
  /\ n_in = 1
  /\ curiter = 1

(***************************************************************************)
(* Claims about render.                                                    *)
(***************************************************************************)
\* what a sequential loop leaves in the buffer slot j
SeqPixel(j) ==
  LET pt == PixelPoint(PixelIndex(j))
      k  == mandelbrot(pt[1], pt[2], curiter, thresh, Prec(variant))
  IN IF k >= curiter THEN 0 ELSE colours[(k % 16) + 1]

Storing(t, j) ==
  /\ frame.w[t].pc = "store"
  /\ frame.w[t].slot = j
  /\ frame.w[t].pc' = "idle"

\* C11: whatever indices the workers get and however their steps interleave,
\* every index of the frame is written exactly once, by a step that changes
\* only that pixel and nothing of the viewport, budget or palette, with 0 when
\* k >= curiter and colours[k mod 16] otherwise; the finished buffer is the one
\* a sequential loop produces, a function of the rendered state alone.
C11_EachPixelOnce ==
  /\ [](\A j \in Slots :
          /\ frame.writes[j] <= 1
          /\ frame.writes[j] = 0 => frame.pixels[j] = -1)
  /\ [](frame.pc = "done" =>
          \A j \in Slots : frame.writes[j] = 1 /\ frame.pixels[j] = SeqPixel(j))
  /\ [][(frame.pc = "fill") =>
          /\ UNCHANGED state
          /\ \A j \in Slots :
               frame.pixels'[j] # frame.pixels[j] =>
                 /\ \E t \in Workers : Storing(t, j)
                 /\ frame.pixels'[j] = SeqPixel(j)
                 /\ \A i \in Slots \ {j} : frame.pixels'[i] = frame.pixels[i]]_vars

\* a finished frame two workers wrote into, with background and coloured
\* pixels
C11_Witness ==
  /\ frame.pc = "done"
  /\ frame.by[0] # frame.by[1]
  /\ \E j \in Slots : frame.pixels[j] = 0
  /\ \E j \in Slots : frame.pixels[j] > 0

\* C12: in every iteration of the main loop the pending events are consumed
\* first, then the budget is advanced once, then the frame is rendered with
\* that budget, and nothing follows the render in the iteration.
C12_EventsAdvanceRender ==
  [][/\ (pc = "poll" /\ pc' # "poll" /\ pc' # "dispatch")
          => (pc' = "update" \/ (variant = "bbox" /\ pc' = "render"))
     /\ (pc = "update") => (pc' = "render" /\ advances' = Count(advances))
     /\ (pc = "render")
          => (pc' = "loop" /\ budget' = curiter'
              /\ advances' = IF variant = "bbox" THEN Count(advances)
                                                  ELSE advances)]_vars

\* (hi - lo)/n in float
ExactStep(lo, hi, n) ==
  FDiv(FSub(hi, lo, FLT_MANT_DIG), FFromInt(n, FLT_MANT_DIG), FLT_MANT_DIG)

====
